---- MODULE Spec2Model ----
(***************************************************************************)
(* A model of mcp-hub-mcp: the McpServerManager registry of child MCP      *)
(* sessions (src/src/server-manager.ts), its tool filters, and the hub's   *)
(* list-all-tools / call-tool handlers.                                    *)
(*                                                                         *)
(* Strings that the code inspects character by character (tool names and   *)
(* filter patterns) are sequences of one-character strings.  Server names  *)
(* are only compared for equality and are plain strings.                   *)
(***************************************************************************)
EXTENDS Integers, Sequences, FiniteSets, TLC

\* ------------------------------------------------------------------------
\* Bounds of the model
\* ------------------------------------------------------------------------

\* longest tool name / pattern enumerated for the pattern matcher
MaxLen == 2

\* child sessions established in one run
MaxSessions == 2

\* longest tool list, and longest include / exclude list, the filter engine
\* is enumerated on
MaxTools == 2

MaxPatterns == 1

\* ------------------------------------------------------------------------
\* Strings
\* ------------------------------------------------------------------------

\* the characters tool names and patterns are built from
Chars == {"a", "A", "x", ".", "?", "*", "+"}

Strs(n) == UNION {[1..k -> Chars] : k \in 0..n}

\* the regular expression is built with the 'i' flag: letters compare
\* without regard to case
Fold(c) == IF c = "A" THEN "a" ELSE IF c = "X" THEN "x" ELSE c

\* String.prototype.endsWith / startsWith
endsWith(s, c) == Len(s) > 0 /\ s[Len(s)] = c

startsWith(s, p) == Len(p) <= Len(s) /\ SubSeq(s, 1, Len(p)) = p

\* String.prototype.replace(/[set]/g, ...) : every character c of s is
\* replaced by f[c]
RECURSIVE ReplaceEach(_, _)
ReplaceEach(s, f) ==
  IF s = <<>> THEN <<>> ELSE f[Head(s)] \o ReplaceEach(Tail(s), f)

\* ------------------------------------------------------------------------
\* matchesPattern: glob -> regular expression -> test
\* ------------------------------------------------------------------------

\* the character class of the first replace: [+?^${}()|[\]\\]
EscapedChars == {"+", "?", "^", "$", "{", "}", "(", ")", "|", "[", "]", "\\"}

\* .replace(/[+?^${}()|[\]\\]/g, '\\$&')
EscapeSpecial(c) == IF c \in EscapedChars THEN <<"\\", c>> ELSE <<c>>

\* .replace(/\./g, '\\.')
EscapeDot(c) == IF c = "." THEN <<"\\", ".">> ELSE <<c>>

\* .replace(/\*/g, '.*')
StarToRegex(c) == IF c = "*" THEN <<".", "*">> ELSE <<c>>

\* .replace(/\?/g, '.')
QuestionToRegex(c) == IF c = "?" THEN <<".">> ELSE <<c>>

\* every character a pattern or a regular expression source can hold
RegexChars == Chars \cup EscapedChars

\* the four chained replaces, in the order of the source
regexPattern(pattern) ==
  LET r1 == ReplaceEach(pattern, [c \in RegexChars |-> EscapeSpecial(c)])
      r2 == ReplaceEach(r1, [c \in RegexChars |-> EscapeDot(c)])
      r3 == ReplaceEach(r2, [c \in RegexChars |-> StarToRegex(c)])
  IN  ReplaceEach(r3, [c \in RegexChars |-> QuestionToRegex(c)])

\* The regular expression source read as the engine reads it: a sequence of
\* atoms (an escaped or plain literal, or `.`), each one optionally starred.
RECURSIVE RegexAtoms(_)
RegexAtoms(r) ==
  IF r = <<>> THEN <<>>
  ELSE LET esc  == Head(r) = "\\" /\ Len(r) >= 2
           used == IF esc THEN 2 ELSE 1
           atom == IF esc THEN [kind |-> "lit", ch |-> r[2]]
                   ELSE IF Head(r) = "." THEN [kind |-> "any", ch |-> "."]
                   ELSE [kind |-> "lit", ch |-> Head(r)]
           star == Len(r) > used /\ r[used + 1] = "*"
           rest == SubSeq(r, used + (IF star THEN 2 ELSE 1), Len(r))
           tok  == [kind |-> atom.kind, ch |-> atom.ch, star |-> star]
       IN  <<tok>> \o RegexAtoms(rest)

\* `.` without the 's' flag matches any character but a line terminator
LineTerminators == {"\n", "\r"}

AtomMatches(atom, c) ==
  IF atom.kind = "any" THEN c \notin LineTerminators
  ELSE Fold(c) = Fold(atom.ch)

\* new RegExp(`^${regexPattern}$`, 'i').test(s): atoms from i on match s
\* from j on, up to the end of s
RECURSIVE RegexMatchFrom(_, _, _, _)
RegexMatchFrom(atoms, i, s, j) ==
  IF i > Len(atoms) THEN j > Len(s)
  ELSE IF atoms[i].star
       THEN \/ RegexMatchFrom(atoms, i + 1, s, j)
            \/ /\ j <= Len(s)
               /\ AtomMatches(atoms[i], s[j])
               /\ RegexMatchFrom(atoms, i, s, j + 1)
       ELSE /\ j <= Len(s)
            /\ AtomMatches(atoms[i], s[j])
            /\ RegexMatchFrom(atoms, i + 1, s, j + 1)

RegexTest(r, s) == RegexMatchFrom(RegexAtoms(r), 1, s, 1)

matchesPattern(toolName, pattern) ==
  IF endsWith(pattern, ".")
  THEN startsWith(toolName, pattern)
  ELSE RegexTest(regexPattern(pattern), toolName)

\* ------------------------------------------------------------------------
\* Tools, tool lists and filter rule sets
\* ------------------------------------------------------------------------

\* a tool descriptor: only `name` is inspected; a descriptor may lack it
Tool(n) == [hasName |-> TRUE, name |-> n]

NamelessTool == [hasName |-> FALSE, name |-> <<>>]

\* `!tool.name`: the name is missing or the empty string
NoToolName(tool) == ~tool.hasName \/ tool.name = <<>>

\* ToolFilterConfig {include?, exclude?}; `present` is FALSE for undefined
\* (no filter stored).  A missing list and an empty list are both <<>>: the
\* code tests `list && list.length > 0`.
FilterConfig(inc, exc) == [present |-> TRUE, include |-> inc, exclude |-> exc]

NoFilter == [present |-> FALSE, include |-> <<>>, exclude |-> <<>>]

\* the answer of client.listTools(): an object with a `tools` array, or
\* something of another shape
ToolList(ts) == [isList |-> TRUE, tools |-> ts]

Malformed == [isList |-> FALSE, tools |-> <<>>]

\* patterns.some(pattern => this.matchesPattern(tool.name, pattern))
SomePatternMatches(patterns, toolName) ==
  \E i \in 1..Len(patterns) : matchesPattern(toolName, patterns[i])

\* the include step of filterToolsByConfig
IncludeStep(tools, filterConfig) ==
  IF Len(filterConfig.include) > 0
  THEN LET keep(tool) == /\ ~NoToolName(tool)
                         /\ SomePatternMatches(filterConfig.include, tool.name)
       IN  SelectSeq(tools, keep)
  ELSE tools

\* a variant of the exclude step that removes only the first tool an
\* exclude pattern matches
ExcludeFirstOnly(tools, filterConfig) ==
  LET hits == {i \in 1..Len(tools) :
                 /\ ~NoToolName(tools[i])
                 /\ SomePatternMatches(filterConfig.exclude, tools[i].name)}
  IN  IF Len(filterConfig.exclude) > 0 /\ hits # {}
      THEN LET k == CHOOSE i \in hits : \A j \in hits : i <= j
           IN  SubSeq(tools, 1, k - 1) \o SubSeq(tools, k + 1, Len(tools))
      ELSE tools

\* a variant of the exclude step with `if (!tool.name) return false`
ExcludeDropsNameless(tools, filterConfig) ==
  IF Len(filterConfig.exclude) > 0
  THEN LET keep(tool) ==
             /\ ~NoToolName(tool)
             /\ ~SomePatternMatches(filterConfig.exclude, tool.name)
       IN  SelectSeq(tools, keep)
  ELSE tools

\* the exclude step of filterToolsByConfig
ExcludeStep(tools, filterConfig) ==
  IF Len(filterConfig.exclude) > 0
  THEN LET keep(tool) == \/ NoToolName(tool)
                         \/ ~SomePatternMatches(filterConfig.exclude, tool.name)
       IN  SelectSeq(tools, keep)
  ELSE tools

filterToolsByConfig(tools, filterConfig) ==
  IF Len(tools) = 0 THEN tools
  ELSE ExcludeStep(IncludeStep(tools, filterConfig), filterConfig)

\* a variant that runs the global stage on the child's list, not on the
\* output of the per-connection stage
applyFiltersGlobalOnInput(tools, perServer, global) ==
  IF ~tools.isList THEN tools
  ELSE IF global.present
       THEN [tools EXCEPT !.tools = filterToolsByConfig(tools.tools, global)]
       ELSE IF perServer.present
            THEN [tools EXCEPT !.tools = filterToolsByConfig(tools.tools, perServer)]
            ELSE tools

\* applyFilters with the two rule sets it reads from the manager passed in
applyFiltersWith(tools, perServer, global) ==
  IF ~tools.isList THEN tools
  ELSE LET stage1 == IF perServer.present
                     THEN filterToolsByConfig(tools.tools, perServer)
                     ELSE tools.tools
           stage2 == IF global.present
                     THEN filterToolsByConfig(stage1, global)
                     ELSE stage1
       IN  [tools EXCEPT !.tools = stage2]

\* ------------------------------------------------------------------------
\* The manager's state
\* ------------------------------------------------------------------------

\* connection names
Names == {"a", "b"}

\* the calls into the manager that can be in progress at the same time
\* (each is an async function: it runs to its next await and is resumed by
\* the event loop)
Tasks == {"t1", "t2"}

\* the tasks that run the batch operations (configuration load,
\* disconnectAll, list-all-tools); every task runs the single-connection
\* calls
BatchTasks == {"t1"}

VARIABLES
  clients,        \* Map<string, Client>, in insertion order: <<[name, handle]>>
  serverFilters,  \* Map<string, ToolFilterConfig>: name -> rule set / NoFilter
  globalFilters,  \* ToolFilterConfig | undefined
  sessions,       \* handles of the child sessions established and not closed
  nextHandle,     \* identity of the next Client that connects
  tasks,          \* per task: the call in progress and its local variables
  last,           \* what the latest step did (the call's outcome, if it ended)
  connectFailed,  \* names a load failed to connect, not registered since
  supplied,       \* per name: the rule set given with the connect that
                  \* established its handle (NoFilter: none, or no handle)
  fnIn,           \* input of the pure function under study
  fnOut           \* its output

vars == <<clients, serverFilters, globalFilters, sessions, nextHandle,
          tasks, last, connectFailed, supplied, fnIn, fnOut>>

\* Map operations on `clients`
Has(m, n) == \E i \in 1..Len(m) : m[i].name = n

Get(m, n) ==
  IF Has(m, n) THEN (CHOOSE e \in {m[i] : i \in 1..Len(m)} : e.name = n).handle
  ELSE 0

Keys(m) == [i \in 1..Len(m) |-> m[i].name]

MapSet(m, n, h) ==
  IF Has(m, n)
  THEN [i \in 1..Len(m) |-> IF m[i].name = n THEN [name |-> n, handle |-> h]
                            ELSE m[i]]
  ELSE Append(m, [name |-> n, handle |-> h])

MapDelete(m, n) == LET keep(e) == e.name # n IN SelectSeq(m, keep)

\* getConnectedServers()
getConnectedServers == Keys(clients)

\* applyFilters(tools, serverName)
applyFilters(tools, serverName) ==
  applyFiltersWith(tools, serverFilters[serverName], globalFilters)

\* a task with no call in progress
IdleTask ==
  [op |-> "idle", pc |-> "idle", name |-> "", handle |-> 0,
   entries |-> <<>>, queue |-> <<>>, servers |-> <<>>, log |-> <<>>,
   tool |-> <<>>, args |-> "", filters |-> NoFilter, prior |-> <<>>]

Idle(t) == tasks[t].op = "idle"

At(t, op, pc) == tasks[t].op = op /\ tasks[t].pc = pc

\* the record of a step: `error` is "none" unless the call threw
Ev(kind, n, err) ==
  [kind |-> kind, name |-> n, error |-> err, handle |-> 0,
   result |-> Malformed, log |-> <<>>, queue |-> <<>>, servers |-> <<>>,
   tool |-> <<>>, args |-> "", prior |-> <<>>]

\* ------------------------------------------------------------------------
\* Inputs
\* ------------------------------------------------------------------------

\* the catalog a child answers listTools with
Catalog ==
  <<Tool(<<"a">>), Tool(<<"a", "x">>), NamelessTool, Tool(<<"x">>)>>

Responses == {ToolList(Catalog)}

\* rule sets of the configuration documents and of the command line
ExcludeA == FilterConfig(<<>>, << <<"a">> >>)

IncludeAStar == FilterConfig(<< <<"a", "*">> >>, <<>>)

IncludeOnlyA == FilterConfig(<< <<"a">> >>, <<>>)

ExcludeX == FilterConfig(<<>>, << <<"x">> >>)

\* configuration documents: mcpServers in document order, globalFilters
Entry(n, f) == [name |-> n, filters |-> f]

Doc1 ==
  [mcpServers |-> <<Entry("a", ExcludeA), Entry("b", NoFilter)>>,
   globalFilters |-> NoFilter]

Doc2 ==
  [mcpServers |-> <<Entry("b", IncludeAStar), Entry("a", NoFilter)>>,
   globalFilters |-> ExcludeX]

Doc3 == [mcpServers |-> <<>>, globalFilters |-> IncludeOnlyA]

Docs == {Doc1, Doc2, Doc3}

\* call-tool requests: tool name and arguments
CallRequests ==
  {[tool |-> <<"a">>, args |-> "args1"], [tool |-> <<"x">>, args |-> "args2"]}

\* ------------------------------------------------------------------------
\* Init: the manager after construction
\* ------------------------------------------------------------------------

\* options.globalFilters: the rule set parsed from the command line, if any
RegistryInit ==
  /\ clients = <<>>
  /\ serverFilters = [n \in Names |-> NoFilter]
  /\ globalFilters \in {NoFilter, IncludeOnlyA}
  /\ sessions = {}
  /\ nextHandle = 1
  /\ tasks = [t \in Tasks |-> IdleTask]
  /\ last = Ev("init", "", "none")
  /\ connectFailed = {}
  /\ supplied = [n \in Names |-> NoFilter]

Init ==
  /\ RegistryInit
  /\ fnIn = <<>>
  /\ fnOut = <<>>

\* ------------------------------------------------------------------------
\* connectToServer(serverName, params)
\* ------------------------------------------------------------------------

\* what a step leaves alone
RegistrySame ==
  UNCHANGED <<clients, sessions, nextHandle, connectFailed, supplied>>

FiltersSame == UNCHANGED <<serverFilters, globalFilters>>

ProbeSame == UNCHANGED <<fnIn, fnOut>>

\* this.clients.set(serverName, client) with a newly connected client
StoreClient(n) ==
  /\ clients' = MapSet(clients, n, nextHandle)
  /\ sessions' = sessions \cup {nextHandle}
  /\ nextHandle' = nextHandle + 1
  /\ connectFailed' = connectFailed \ {n}

\* `if (this.clients.has(serverName)) throw new Error("Already connected")`
ConnectAlready(t, n) ==
  /\ Idle(t)
  /\ Has(clients, n)
  /\ last' = Ev("connect", n, "AlreadyConnected")
  /\ UNCHANGED tasks
  /\ RegistrySame /\ FiltersSame /\ ProbeSame

\* a variant without the `this.clients.has(serverName)` test
ConnectStartUnchecked(t, n) ==
  /\ Idle(t)
  /\ nextHandle <= MaxSessions
  /\ tasks' = [tasks EXCEPT ![t] =
       [IdleTask EXCEPT !.op = "connect", !.pc = "connecting", !.name = n]]
  /\ last' = Ev("connectStart", n, "none")
  /\ RegistrySame /\ FiltersSame /\ ProbeSame

\* the transport and the client are created; `await client.connect(transport)`
ConnectStart(t, n) ==
  /\ Idle(t)
  /\ ~Has(clients, n)
  /\ nextHandle <= MaxSessions
  /\ tasks' = [tasks EXCEPT ![t] =
       [IdleTask EXCEPT !.op = "connect", !.pc = "connecting", !.name = n]]
  /\ last' = Ev("connectStart", n, "none")
  /\ RegistrySame /\ FiltersSame /\ ProbeSame

\* client.connect resolved: the handle is stored
ConnectOk(t) ==
  /\ At(t, "connect", "connecting")
  /\ nextHandle <= MaxSessions
  /\ StoreClient(tasks[t].name)
  /\ supplied' = [supplied EXCEPT ![tasks[t].name] = NoFilter]
  /\ tasks' = [tasks EXCEPT ![t] = IdleTask]
  /\ last' = [Ev("connect", tasks[t].name, "none")
                EXCEPT !.handle = nextHandle]
  /\ FiltersSame /\ ProbeSame

\* a variant that has stored the client before the await
ConnectFailKeepsClient(t) ==
  /\ At(t, "connect", "connecting")
  /\ nextHandle <= MaxSessions
  /\ clients' = MapSet(clients, tasks[t].name, nextHandle)
  /\ nextHandle' = nextHandle + 1
  /\ tasks' = [tasks EXCEPT ![t] = IdleTask]
  /\ last' = Ev("connect", tasks[t].name, "TransportFailure")
  /\ UNCHANGED <<sessions, connectFailed, supplied>>
  /\ FiltersSame /\ ProbeSame

\* client.connect rejected (spawn or handshake failure): logged, rethrown
ConnectFail(t) ==
  /\ At(t, "connect", "connecting")
  /\ tasks' = [tasks EXCEPT ![t] = IdleTask]
  /\ last' = Ev("connect", tasks[t].name, "TransportFailure")
  /\ RegistrySame /\ FiltersSame /\ ProbeSame

\* ------------------------------------------------------------------------
\* loadFromConfig(configPath)
\* ------------------------------------------------------------------------

\* the console.error of a failed connection of the load: the name joins
\* connectFailed unless another call has registered it meanwhile
FailedMore(n) ==
  IF Has(clients, n) THEN connectFailed ELSE connectFailed \cup {n}

\* a variant of the loop without `if (this.clients.has(serverName)) continue`
LoadSkipNone(entries, m) == entries

\* `if (this.clients.has(serverName)) continue`: the entries still to do,
\* from the first one whose name is not registered
RECURSIVE LoadSkip(_, _)
LoadSkip(entries, m) ==
  IF entries = <<>> \/ ~Has(m, Head(entries).name) THEN entries
  ELSE LoadSkip(Tail(entries), m)

\* what the load did with each entry it went past: "skipped", "connected",
\* "failed" (the console.error lines, and the entries passed silently)
LogEntry(n, what) == [name |-> n, outcome |-> what]

SkippedLog(entries, rest) ==
  [i \in 1..(Len(entries) - Len(rest)) |-> LogEntry(entries[i].name, "skipped")]

\* The load that returned in the step just before this one was called, when
\* it read the same document (the documents differ in their server names):
\* its log, and the registry this load started from; <<>> otherwise.
LoadPrior(t, servers) ==
  IF tasks[t].op = "load" THEN tasks[t].prior
  ELSE IF last.kind = "load" /\ last.error = "none" /\ last.servers = servers
       THEN <<[log |-> last.log, clients |-> clients]>>
       ELSE <<>>

\* The for loop from `entries` on, up to its next await (`servers` are the
\* names of the document, for the record of the load): registered names
\* are skipped, the filters of the first other entry are stored and its
\* connection is started; with no entry left the load returns.
LoadLoop(t, servers, entries, log) ==
  LET rest == LoadSkip(entries, clients)
      log2 == log \o SkippedLog(entries, rest)
  IN  IF rest = <<>>
      THEN /\ tasks' = [tasks EXCEPT ![t] = IdleTask]
           /\ last' = [Ev("load", "", "none")
                         EXCEPT !.log = log2, !.servers = servers,
                                !.prior = LoadPrior(t, servers)]
           /\ UNCHANGED serverFilters
      ELSE /\ serverFilters' =
                IF Head(rest).filters.present
                THEN [serverFilters EXCEPT ![Head(rest).name] = Head(rest).filters]
                ELSE serverFilters
           /\ tasks' = [tasks EXCEPT ![t] =
                [IdleTask EXCEPT !.op = "load", !.pc = "connecting",
                                 !.name = Head(rest).name,
                                 !.entries = Tail(rest), !.log = log2,
                                 !.servers = servers,
                                 !.filters = Head(rest).filters,
                                 !.prior = LoadPrior(t, servers)]]
           /\ last' = Ev("loadConnect", Head(rest).name, "none")

\* no path, or loadConfigFile throws: the document is missing or unparseable
LoadFail(t) ==
  /\ Idle(t)
  /\ last' = Ev("load", "", "ConfigurationLoadFailure")
  /\ UNCHANGED tasks
  /\ RegistrySame /\ FiltersSame /\ ProbeSame

\* the document is read: globalFilters, then the loop over mcpServers
LoadCall(t, doc) ==
  /\ Idle(t)
  /\ globalFilters' = IF doc.globalFilters.present THEN doc.globalFilters
                      ELSE globalFilters
  /\ IF Len(doc.mcpServers) = 0
     THEN /\ last' = Ev("load", "", "none")
          /\ UNCHANGED <<tasks, serverFilters>>
     ELSE LoadLoop(t, [i \in 1..Len(doc.mcpServers) |-> doc.mcpServers[i].name],
                   doc.mcpServers, <<>>)
  /\ RegistrySame /\ ProbeSame

\* `await this.connectToServer(...)` returned
LoadConnectOk(t) ==
  /\ At(t, "load", "connecting")
  /\ nextHandle <= MaxSessions
  /\ StoreClient(tasks[t].name)
  /\ supplied' = [supplied EXCEPT ![tasks[t].name] = tasks[t].filters]
  /\ tasks' = [tasks EXCEPT ![t].pc = "next",
                 ![t].log = Append(@, LogEntry(tasks[t].name, "connected"))]
  /\ last' = [Ev("loadConnected", tasks[t].name, "none")
                EXCEPT !.handle = nextHandle]
  /\ FiltersSame /\ ProbeSame

\* a variant without the try/catch around the connection: the load rejects
LoadConnectFailAborts(t) ==
  /\ At(t, "load", "connecting")
  /\ tasks' = [tasks EXCEPT ![t] = IdleTask]
  /\ last' = [Ev("load", tasks[t].name, "TransportFailure")
                EXCEPT !.log = tasks[t].log, !.servers = tasks[t].servers]
  /\ connectFailed' = FailedMore(tasks[t].name)
  /\ UNCHANGED <<clients, sessions, nextHandle, supplied>>
  /\ FiltersSame /\ ProbeSame

\* a variant that has stored the client before the connection failed
LoadConnectFailKeepsClient(t) ==
  /\ At(t, "load", "connecting")
  /\ nextHandle <= MaxSessions
  /\ clients' = MapSet(clients, tasks[t].name, nextHandle)
  /\ nextHandle' = nextHandle + 1
  /\ tasks' = [tasks EXCEPT ![t].pc = "next",
                 ![t].log = Append(@, LogEntry(tasks[t].name, "failed"))]
  /\ last' = Ev("loadConnectFailed", tasks[t].name, "TransportFailure")
  /\ connectFailed' = FailedMore(tasks[t].name)
  /\ UNCHANGED <<sessions, supplied>>
  /\ FiltersSame /\ ProbeSame

\* `await this.connectToServer(...)` threw: caught and logged
LoadConnectFail(t) ==
  /\ At(t, "load", "connecting")
  /\ tasks' = [tasks EXCEPT ![t].pc = "next",
                 ![t].log = Append(@, LogEntry(tasks[t].name, "failed"))]
  /\ last' = Ev("loadConnectFailed", tasks[t].name, "TransportFailure")
  /\ connectFailed' = FailedMore(tasks[t].name)
  /\ UNCHANGED <<clients, sessions, nextHandle, supplied>>
  /\ FiltersSame /\ ProbeSame

\* the loop goes on with the next entry
LoadNext(t) ==
  /\ At(t, "load", "next")
  /\ LoadLoop(t, tasks[t].servers, tasks[t].entries, tasks[t].log)
  /\ UNCHANGED globalFilters
  /\ RegistrySame /\ ProbeSame

\* ------------------------------------------------------------------------
\* listTools(serverName)
\* ------------------------------------------------------------------------

\* getClient throws: `Not connected to server`
ListNotConnected(t, n) ==
  /\ Idle(t)
  /\ ~Has(clients, n)
  /\ last' = Ev("listTools", n, "NotConnected")
  /\ UNCHANGED tasks
  /\ RegistrySame /\ FiltersSame /\ ProbeSame

\* a variant that does not resolve the client through getClient
ListStartUnchecked(t, n) ==
  /\ Idle(t)
  /\ tasks' = [tasks EXCEPT ![t] =
       [IdleTask EXCEPT !.op = "listTools", !.pc = "listing", !.name = n,
                        !.handle = Get(clients, n)]]
  /\ last' = [Ev("listStart", n, "none") EXCEPT !.handle = Get(clients, n)]
  /\ RegistrySame /\ FiltersSame /\ ProbeSame

\* `await client.listTools()` on the resolved client
ListStart(t, n) ==
  /\ Idle(t)
  /\ Has(clients, n)
  /\ tasks' = [tasks EXCEPT ![t] =
       [IdleTask EXCEPT !.op = "listTools", !.pc = "listing", !.name = n,
                        !.handle = Get(clients, n)]]
  /\ last' = [Ev("listStart", n, "none") EXCEPT !.handle = Get(clients, n)]
  /\ RegistrySame /\ FiltersSame /\ ProbeSame

\* the child answered: the filters are applied to its answer
ListOk(t, response) ==
  /\ At(t, "listTools", "listing")
  /\ tasks' = [tasks EXCEPT ![t] = IdleTask]
  /\ last' = [Ev("listTools", tasks[t].name, "none")
                EXCEPT !.handle = tasks[t].handle,
                       !.result = applyFilters(response, tasks[t].name)]
  /\ RegistrySame /\ FiltersSame /\ ProbeSame

\* the request failed
ListFail(t) ==
  /\ At(t, "listTools", "listing")
  /\ tasks' = [tasks EXCEPT ![t] = IdleTask]
  /\ last' = Ev("listTools", tasks[t].name, "TransportFailure")
  /\ RegistrySame /\ FiltersSame /\ ProbeSame

\* ------------------------------------------------------------------------
\* callTool(serverName, toolName, args)
\* ------------------------------------------------------------------------

CallNotConnected(t, n, toolName, args) ==
  /\ Idle(t)
  /\ ~Has(clients, n)
  /\ last' = Ev("callTool", n, "NotConnected")
  /\ UNCHANGED tasks
  /\ RegistrySame /\ FiltersSame /\ ProbeSame

\* a variant that forwards only the tools listTools shows
CallStartVisibleOnly(t, n, toolName, args) ==
  /\ Idle(t)
  /\ Has(clients, n)
  /\ \E i \in 1..Len(applyFilters(ToolList(Catalog), n).tools) :
        applyFilters(ToolList(Catalog), n).tools[i] = Tool(toolName)
  /\ tasks' = [tasks EXCEPT ![t] =
       [IdleTask EXCEPT !.op = "callTool", !.pc = "calling", !.name = n,
                        !.handle = Get(clients, n),
                        !.tool = toolName, !.args = args]]
  /\ last' = [Ev("callStart", n, "none")
                EXCEPT !.handle = Get(clients, n),
                       !.tool = toolName, !.args = args]
  /\ RegistrySame /\ FiltersSame /\ ProbeSame

\* `await client.callTool({name: toolName, arguments: args})`: the request
\* sent to the child is the event's (handle, tool, args)
CallStart(t, n, toolName, args) ==
  /\ Idle(t)
  /\ Has(clients, n)
  /\ tasks' = [tasks EXCEPT ![t] =
       [IdleTask EXCEPT !.op = "callTool", !.pc = "calling", !.name = n,
                        !.handle = Get(clients, n),
                        !.tool = toolName, !.args = args]]
  /\ last' = [Ev("callStart", n, "none")
                EXCEPT !.handle = Get(clients, n),
                       !.tool = toolName, !.args = args]
  /\ RegistrySame /\ FiltersSame /\ ProbeSame

CallOk(t) ==
  /\ At(t, "callTool", "calling")
  /\ tasks' = [tasks EXCEPT ![t] = IdleTask]
  /\ last' = [Ev("callTool", tasks[t].name, "none")
                EXCEPT !.handle = tasks[t].handle,
                       !.tool = tasks[t].tool, !.args = tasks[t].args]
  /\ RegistrySame /\ FiltersSame /\ ProbeSame

CallFail(t) ==
  /\ At(t, "callTool", "calling")
  /\ tasks' = [tasks EXCEPT ![t] = IdleTask]
  /\ last' = [Ev("callTool", tasks[t].name, "TransportFailure")
                EXCEPT !.handle = tasks[t].handle,
                       !.tool = tasks[t].tool, !.args = tasks[t].args]
  /\ RegistrySame /\ FiltersSame /\ ProbeSame

\* ------------------------------------------------------------------------
\* disconnectServer(serverName)
\* ------------------------------------------------------------------------

\* client.close() resolved on `handle`; this.clients.delete(serverName)
CloseClient(n, handle) ==
  /\ clients' = MapDelete(clients, n)
  /\ sessions' = sessions \ {handle}
  /\ supplied' = [supplied EXCEPT ![n] = NoFilter]
  /\ UNCHANGED <<nextHandle, connectFailed>>

DisconnectNotConnected(t, n) ==
  /\ Idle(t)
  /\ ~Has(clients, n)
  /\ last' = Ev("disconnect", n, "NotConnected")
  /\ UNCHANGED tasks
  /\ RegistrySame /\ FiltersSame /\ ProbeSame

\* `await client.close()`
DisconnectStart(t, n) ==
  /\ Idle(t)
  /\ Has(clients, n)
  /\ tasks' = [tasks EXCEPT ![t] =
       [IdleTask EXCEPT !.op = "disconnect", !.pc = "closing", !.name = n,
                        !.handle = Get(clients, n)]]
  /\ last' = [Ev("closeStart", n, "none") EXCEPT !.handle = Get(clients, n)]
  /\ RegistrySame /\ FiltersSame /\ ProbeSame

DisconnectOk(t) ==
  /\ At(t, "disconnect", "closing")
  /\ CloseClient(tasks[t].name, tasks[t].handle)
  /\ tasks' = [tasks EXCEPT ![t] = IdleTask]
  /\ last' = [Ev("disconnect", tasks[t].name, "none")
                EXCEPT !.handle = tasks[t].handle]
  /\ FiltersSame /\ ProbeSame

\* a variant that deletes the entry whether or not the close succeeded
DisconnectFailDeletes(t) ==
  /\ At(t, "disconnect", "closing")
  /\ clients' = MapDelete(clients, tasks[t].name)
  /\ tasks' = [tasks EXCEPT ![t] = IdleTask]
  /\ last' = [Ev("disconnect", tasks[t].name, "TransportFailure")
                EXCEPT !.handle = tasks[t].handle]
  /\ UNCHANGED <<sessions, nextHandle, connectFailed, supplied>>
  /\ FiltersSame /\ ProbeSame

\* client.close() rejected: logged, rethrown; the entry stays
DisconnectFail(t) ==
  /\ At(t, "disconnect", "closing")
  /\ tasks' = [tasks EXCEPT ![t] = IdleTask]
  /\ last' = [Ev("disconnect", tasks[t].name, "TransportFailure")
                EXCEPT !.handle = tasks[t].handle]
  /\ RegistrySame /\ FiltersSame /\ ProbeSame

\* ------------------------------------------------------------------------
\* disconnectAll()
\* ------------------------------------------------------------------------

\* The for loop over the names still in `queue`, up to its next await; `log`
\* holds the names a close was started on.  disconnectServer throws for a
\* name that is registered no more, and nothing catches it.
DisconnectAllLoop(t, servers, queue, log) ==
  IF queue = <<>>
  THEN /\ tasks' = [tasks EXCEPT ![t] = IdleTask]
       /\ last' = [Ev("disconnectAll", "", "none")
                     EXCEPT !.log = log, !.servers = servers]
  ELSE IF ~Has(clients, Head(queue))
  THEN /\ tasks' = [tasks EXCEPT ![t] = IdleTask]
       /\ last' = [Ev("disconnectAll", Head(queue), "NotConnected")
                     EXCEPT !.log = log, !.queue = Tail(queue),
                            !.servers = servers]
  ELSE /\ tasks' = [tasks EXCEPT ![t] =
            [IdleTask EXCEPT !.op = "disconnectAll", !.pc = "closing",
                             !.name = Head(queue),
                             !.handle = Get(clients, Head(queue)),
                             !.queue = Tail(queue), !.servers = servers,
                             !.log = Append(log, Head(queue))]]
       /\ last' = [Ev("closeStart", Head(queue), "none")
                     EXCEPT !.handle = Get(clients, Head(queue))]

\* `const serverNames = this.getConnectedServers()` and the first iteration
DisconnectAllCall(t) ==
  /\ Idle(t)
  /\ DisconnectAllLoop(t, getConnectedServers, getConnectedServers, <<>>)
  /\ RegistrySame /\ FiltersSame /\ ProbeSame

DisconnectAllCloseOk(t) ==
  /\ At(t, "disconnectAll", "closing")
  /\ CloseClient(tasks[t].name, tasks[t].handle)
  /\ tasks' = [tasks EXCEPT ![t].pc = "next"]
  /\ last' = [Ev("closed", tasks[t].name, "none")
                EXCEPT !.handle = tasks[t].handle]
  /\ FiltersSame /\ ProbeSame

\* `await this.disconnectServer(serverName)` threw: disconnectAll rejects
\* with the names of `queue` not visited
DisconnectAllCloseFail(t) ==
  /\ At(t, "disconnectAll", "closing")
  /\ tasks' = [tasks EXCEPT ![t] = IdleTask]
  /\ last' = [Ev("disconnectAll", tasks[t].name, "TransportFailure")
                EXCEPT !.handle = tasks[t].handle, !.log = tasks[t].log,
                       !.queue = tasks[t].queue, !.servers = tasks[t].servers]
  /\ RegistrySame /\ FiltersSame /\ ProbeSame

DisconnectAllNext(t) ==
  /\ At(t, "disconnectAll", "next")
  /\ DisconnectAllLoop(t, tasks[t].servers, tasks[t].queue, tasks[t].log)
  /\ RegistrySame /\ FiltersSame /\ ProbeSame

\* ------------------------------------------------------------------------
\* the hub's list-all-tools handler
\* ------------------------------------------------------------------------

\* an entry of allTools: the filtered answer, or {error: ...}
ToolsEntry(n, value) ==
  [name |-> n, ok |-> TRUE, value |-> value, error |-> "none"]

ErrorEntry(n, err) ==
  [name |-> n, ok |-> FALSE, value |-> Malformed, error |-> err]

\* listTools throws at once for the names registered no more (getClient):
\* the handler's catch records an error entry for each and goes on
RECURSIVE ListAllSkip(_, _, _)
ListAllSkip(queue, log, m) ==
  IF queue = <<>> \/ Has(m, Head(queue)) THEN [queue |-> queue, log |-> log]
  ELSE ListAllSkip(Tail(queue),
                   Append(log, ErrorEntry(Head(queue), "NotConnected")), m)

\* The for loop over the names still in `queue`, up to its next await;
\* `log` is allTools, in insertion order.
ListAllLoop(t, servers, queue, log) ==
  LET r == ListAllSkip(queue, log, clients)
  IN  IF r.queue = <<>>
      THEN /\ tasks' = [tasks EXCEPT ![t] = IdleTask]
           /\ last' = [Ev("listAll", "", "none")
                         EXCEPT !.log = r.log, !.servers = servers]
      ELSE /\ tasks' = [tasks EXCEPT ![t] =
                [IdleTask EXCEPT !.op = "listAll", !.pc = "listing",
                                 !.name = Head(r.queue),
                                 !.handle = Get(clients, Head(r.queue)),
                                 !.queue = Tail(r.queue), !.servers = servers,
                                 !.log = r.log]]
           /\ last' = [Ev("listStart", Head(r.queue), "none")
                         EXCEPT !.handle = Get(clients, Head(r.queue))]

\* `const servers = serverManager.getConnectedServers()`; with no server the
\* handler answers "No connected servers."; else the first iteration
ListAllCall(t) ==
  /\ Idle(t)
  /\ ListAllLoop(t, getConnectedServers, getConnectedServers, <<>>)
  /\ RegistrySame /\ FiltersSame /\ ProbeSame

\* `allTools[serverName] = toolsResponse`
ListAllOk(t, response) ==
  /\ At(t, "listAll", "listing")
  /\ tasks' = [tasks EXCEPT ![t].pc = "next",
                 ![t].log = Append(@, ToolsEntry(tasks[t].name,
                                applyFilters(response, tasks[t].name)))]
  /\ last' = [Ev("listed", tasks[t].name, "none")
                EXCEPT !.handle = tasks[t].handle,
                       !.result = applyFilters(response, tasks[t].name)]
  /\ RegistrySame /\ FiltersSame /\ ProbeSame

\* a variant without the try/catch around listTools: the handler's outer
\* catch answers with isError
ListAllFailAborts(t) ==
  /\ At(t, "listAll", "listing")
  /\ tasks' = [tasks EXCEPT ![t] = IdleTask]
  /\ last' = [Ev("listAll", tasks[t].name, "TransportFailure")
                EXCEPT !.log = tasks[t].log, !.servers = tasks[t].servers]
  /\ RegistrySame /\ FiltersSame /\ ProbeSame

\* `allTools[serverName] = {error: ...}`
ListAllFail(t) ==
  /\ At(t, "listAll", "listing")
  /\ tasks' = [tasks EXCEPT ![t].pc = "next",
                 ![t].log = Append(@, ErrorEntry(tasks[t].name,
                                                 "TransportFailure"))]
  /\ last' = Ev("listFailed", tasks[t].name, "TransportFailure")
  /\ RegistrySame /\ FiltersSame /\ ProbeSame

ListAllNext(t) ==
  /\ At(t, "listAll", "next")
  /\ ListAllLoop(t, tasks[t].servers, tasks[t].queue, tasks[t].log)
  /\ RegistrySame /\ FiltersSame /\ ProbeSame

\* ------------------------------------------------------------------------
\* The process: unhandled rejections, the SIGINT handler, autoLoad
\* ------------------------------------------------------------------------

\* a task of a process that has ended: no call runs or resumes
ExitedTask == [IdleTask EXCEPT !.op = "exited", !.pc = "exited"]

\* how the runtime treats a rejected promise nobody handles: the process is
\* terminated, or the rejection is only reported and the process runs on
RejectionOutcomes == {"crash", "unhandledRejection"}

\* the promise of task t's async function rejects with the record `ev` and
\* has no handler
UnhandledRejection(t, ev, outcome) ==
  /\ tasks' = IF outcome = "crash" THEN [u \in Tasks |-> ExitedTask]
              ELSE [tasks EXCEPT ![t] = IdleTask]
  /\ last' = [ev EXCEPT !.kind = outcome]

\* `await serverManager.disconnectAll(); process.exit(0)` of the SIGINT
\* handler: the for loop of disconnectAll over the names still in `queue`,
\* up to its next await; `log` holds the names a close was started on.
\* When disconnectAll returns the process exits; when disconnectServer
\* throws, the handler's promise rejects and nothing handles it.
ShutdownLoop(t, servers, queue, log, outcome) ==
  IF queue = <<>>
  THEN /\ tasks' = [u \in Tasks |-> ExitedTask]
       /\ last' = [Ev("exit", "", "none")
                     EXCEPT !.log = log, !.servers = servers]
  ELSE IF ~Has(clients, Head(queue))
  THEN UnhandledRejection(t,
         [Ev("sigint", Head(queue), "NotConnected")
            EXCEPT !.log = log, !.queue = Tail(queue), !.servers = servers],
         outcome)
  ELSE /\ tasks' = [tasks EXCEPT ![t] =
            [IdleTask EXCEPT !.op = "sigint", !.pc = "closing",
                             !.name = Head(queue),
                             !.handle = Get(clients, Head(queue)),
                             !.queue = Tail(queue), !.servers = servers,
                             !.log = Append(log, Head(queue))]]
       /\ last' = [Ev("closeStart", Head(queue), "none")
                     EXCEPT !.handle = Get(clients, Head(queue))]

\* process.on("SIGINT", ...): the signal arrives
SigintCall(t) ==
  /\ Idle(t)
  /\ \E outcome \in RejectionOutcomes :
       ShutdownLoop(t, getConnectedServers, getConnectedServers, <<>>, outcome)
  /\ RegistrySame /\ FiltersSame /\ ProbeSame

SigintCloseOk(t) ==
  /\ At(t, "sigint", "closing")
  /\ CloseClient(tasks[t].name, tasks[t].handle)
  /\ tasks' = [tasks EXCEPT ![t].pc = "next"]
  /\ last' = [Ev("closed", tasks[t].name, "none")
                EXCEPT !.handle = tasks[t].handle]
  /\ FiltersSame /\ ProbeSame

\* client.close() rejected: disconnectServer rethrows, disconnectAll and
\* the handler reject; process.exit(0) is not reached
SigintCloseFail(t) ==
  /\ At(t, "sigint", "closing")
  /\ \E outcome \in RejectionOutcomes :
       UnhandledRejection(t,
         [Ev("sigint", tasks[t].name, "TransportFailure")
            EXCEPT !.handle = tasks[t].handle, !.log = tasks[t].log,
                   !.queue = tasks[t].queue, !.servers = tasks[t].servers],
         outcome)
  /\ RegistrySame /\ FiltersSame /\ ProbeSame

SigintNext(t) ==
  /\ At(t, "sigint", "next")
  /\ \E outcome \in RejectionOutcomes :
       ShutdownLoop(t, tasks[t].servers, tasks[t].queue, tasks[t].log, outcome)
  /\ RegistrySame /\ FiltersSame /\ ProbeSame

\* The constructor with autoLoad and a configuration path:
\* `try { this.loadFromConfig(this.configPath) } catch ...` without await.
\* loadConfigFile throws inside the async function (the document is missing
\* or unparseable): the promise the constructor drops is rejected, its
\* catch block never runs.
AutoLoadFail(t) ==
  /\ Idle(t)
  /\ last.kind = "init"
  /\ \E outcome \in RejectionOutcomes :
       UnhandledRejection(t, Ev("autoLoad", "", "ConfigurationLoadFailure"),
                          outcome)
  /\ RegistrySame /\ FiltersSame /\ ProbeSame

\* ------------------------------------------------------------------------
\* The manager and the hub's handlers, interleaved at their awaits
\* ------------------------------------------------------------------------

Next ==
  \/ \E t \in Tasks, n \in Names : ConnectAlready(t, n)
  \/ \E t \in Tasks, n \in Names : ConnectStart(t, n)
  \/ \E t \in Tasks : ConnectOk(t)
  \/ \E t \in Tasks : ConnectFail(t)
  \/ \E t \in BatchTasks : LoadFail(t)
  \/ \E t \in BatchTasks, doc \in Docs : LoadCall(t, doc)
  \/ \E t \in BatchTasks : LoadConnectOk(t)
  \/ \E t \in BatchTasks : LoadConnectFail(t)
  \/ \E t \in BatchTasks : LoadNext(t)
  \/ \E t \in Tasks, n \in Names : ListNotConnected(t, n)
  \/ \E t \in Tasks, n \in Names : ListStart(t, n)
  \/ \E t \in Tasks, response \in Responses : ListOk(t, response)
  \/ \E t \in Tasks : ListFail(t)
  \/ \E t \in Tasks, n \in Names, c \in CallRequests :
       CallNotConnected(t, n, c.tool, c.args)
  \/ \E t \in Tasks, n \in Names, c \in CallRequests :
       CallStart(t, n, c.tool, c.args)
  \/ \E t \in Tasks : CallOk(t)
  \/ \E t \in Tasks : CallFail(t)
  \/ \E t \in Tasks, n \in Names : DisconnectNotConnected(t, n)
  \/ \E t \in Tasks, n \in Names : DisconnectStart(t, n)
  \/ \E t \in Tasks : DisconnectOk(t)
  \/ \E t \in Tasks : DisconnectFail(t)
  \/ \E t \in BatchTasks : DisconnectAllCall(t)
  \/ \E t \in BatchTasks : DisconnectAllCloseOk(t)
  \/ \E t \in BatchTasks : DisconnectAllCloseFail(t)
  \/ \E t \in BatchTasks : DisconnectAllNext(t)
  \/ \E t \in BatchTasks : ListAllCall(t)
  \/ \E t \in BatchTasks, response \in Responses : ListAllOk(t, response)
  \/ \E t \in BatchTasks : ListAllFail(t)
  \/ \E t \in BatchTasks : ListAllNext(t)
  \/ \E t \in BatchTasks : SigintCall(t)
  \/ \E t \in BatchTasks : SigintCloseOk(t)
  \/ \E t \in BatchTasks : SigintCloseFail(t)
  \/ \E t \in BatchTasks : SigintNext(t)
  \/ \E t \in BatchTasks : AutoLoadFail(t)

Spec == Init /\ [][Next]_vars

\* One caller that makes one call at a time (loads, connects, disconnects)
\* and waits for each to return before the next
Caller == "t1"

NextReload ==
  \/ LoadFail(Caller)
  \/ \E doc \in Docs : LoadCall(Caller, doc)
  \/ LoadConnectOk(Caller)
  \/ LoadConnectFail(Caller)
  \/ LoadNext(Caller)
  \/ \E n \in Names : ConnectAlready(Caller, n)
  \/ \E n \in Names : ConnectStart(Caller, n)
  \/ ConnectOk(Caller)
  \/ ConnectFail(Caller)
  \/ \E n \in Names : DisconnectNotConnected(Caller, n)
  \/ \E n \in Names : DisconnectStart(Caller, n)
  \/ DisconnectOk(Caller)
  \/ DisconnectFail(Caller)

SpecReload == Init /\ [][NextReload]_vars

\* A child that never answers: the session registered under the name Hung
\* is established like any other, but its answers to a catalog query or a
\* tool call are never due.  Everything else that is awaited settles: a
\* connection is established or fails, the other children answer or fail,
\* and the event loop resumes the call that waited.
Hung == "a"

NextHang ==
  \/ \E t \in Tasks, n \in Names : ConnectStart(t, n)
  \/ \E t \in Tasks : ConnectOk(t)
  \/ \E t \in Tasks : ConnectFail(t)
  \/ \E t \in Tasks, n \in Names, c \in CallRequests :
       CallStart(t, n, c.tool, c.args)
  \/ \E t \in Tasks : CallOk(t)
  \/ \E t \in Tasks : CallFail(t)
  \/ \E t \in BatchTasks : ListAllCall(t)
  \/ \E t \in BatchTasks, response \in Responses : ListAllOk(t, response)
  \/ \E t \in BatchTasks : ListAllFail(t)
  \/ \E t \in BatchTasks : ListAllNext(t)

\* the steps that resume task t: the outcome of its connection, the next
\* iteration of its loop, the answer of a child other than the hung one
Resume(t) ==
  \/ ConnectOk(t)
  \/ ConnectFail(t)
  \/ ListAllNext(t)
  \/ /\ tasks[t].name # Hung
     /\ \/ CallOk(t)
        \/ CallFail(t)
        \/ \E response \in Responses : ListAllOk(t, response)
        \/ ListAllFail(t)

FairHang == \A t \in Tasks : WF_vars(Resume(t))

SpecHang == Init /\ [][NextHang]_vars /\ FairHang

\* ------------------------------------------------------------------------
\* The pattern matcher and the filter engine on their own: the input is
\* drawn in the initial state, one step applies the function
\* ------------------------------------------------------------------------

\* the manager at rest, no global filter given
RegistryAtRest == RegistryInit /\ globalFilters = NoFilter

RegistryUnchanged ==
  UNCHANGED <<clients, serverFilters, globalFilters, sessions, nextHandle,
              tasks, last, connectFailed, supplied>>

InitMatch ==
  /\ RegistryAtRest
  /\ fnIn \in [toolName : Strs(MaxLen), pattern : Strs(MaxLen)]
  /\ fnOut = <<>>

MatchStep ==
  /\ fnOut = <<>>
  /\ fnOut' = <<matchesPattern(fnIn.toolName, fnIn.pattern)>>
  /\ UNCHANGED fnIn
  /\ RegistryUnchanged

NextMatch == MatchStep

SpecMatch == InitMatch /\ [][NextMatch]_vars

\* tool lists and rule sets the filter engine is run on
FilterTools == {Tool(<<"a">>), Tool(<<"a", "x">>), Tool(<<>>), NamelessTool}

FilterPatterns == {<<"a">>, <<"a", "*">>}

ToolSeqs(n) == UNION {[1..k -> FilterTools] : k \in 0..n}

PatternLists(n) == UNION {[1..k -> FilterPatterns] : k \in 0..n}

RuleSets ==
  {NoFilter} \cup {FilterConfig(inc, exc) :
                     inc \in PatternLists(MaxPatterns),
                     exc \in PatternLists(MaxPatterns)}

InitFilter ==
  /\ RegistryAtRest
  /\ fnIn \in [tools : {ToolList(ts) : ts \in ToolSeqs(MaxTools)} \cup {Malformed},
               perServer : RuleSets, global : RuleSets]
  /\ fnOut = <<>>

FilterStep ==
  /\ fnOut = <<>>
  /\ fnOut' = <<applyFiltersWith(fnIn.tools, fnIn.perServer, fnIn.global)>>
  /\ UNCHANGED fnIn
  /\ RegistryUnchanged

\* the same rule sets applied to the list the first application returned
FilterAgainStep ==
  /\ Len(fnOut) = 1
  /\ fnOut' = Append(fnOut,
                 applyFiltersWith(fnOut[1], fnIn.perServer, fnIn.global))
  /\ UNCHANGED fnIn
  /\ RegistryUnchanged

NextFilter == FilterStep \/ FilterAgainStep

SpecFilter == InitFilter /\ [][NextFilter]_vars

\* ------------------------------------------------------------------------
\* C9: listTools returns the catalog's tools, in order, that survive the
\* per-connection stage and then the global stage
\* ------------------------------------------------------------------------

\* a tool survives a stage: it matches an include pattern when the stage has
\* include patterns, and matches no exclude pattern; a tool with no name
\* fails every include test and passes every exclude test
SurvivesStage(tool, ruleSet) ==
  \/ ~ruleSet.present
  \/ /\ \/ Len(ruleSet.include) = 0
        \/ /\ ~NoToolName(tool)
           /\ \E i \in 1..Len(ruleSet.include) :
                matchesPattern(tool.name, ruleSet.include[i])
     /\ \/ Len(ruleSet.exclude) = 0
        \/ NoToolName(tool)
        \/ \A i \in 1..Len(ruleSet.exclude) :
             ~matchesPattern(tool.name, ruleSet.exclude[i])

SurvivorsOf(tools, perServer, global) ==
  LET keep(tool) == SurvivesStage(tool, perServer) /\ SurvivesStage(tool, global)
  IN  SelectSeq(tools, keep)

\* C9: for every catalog and every pair of rule sets the filtered list is
\* exactly the catalog's tools, in catalog order, that survive the
\* per-connection stage and the global stage; a tool the per-connection
\* exclude removes is absent whatever the global include says.
C9_StagedFilter ==
  (fnOut # <<>> /\ fnIn.tools.isList) =>
     /\ fnOut[1].isList
     /\ fnOut[1].tools =
          SurvivorsOf(fnIn.tools.tools, fnIn.perServer, fnIn.global)

\* the per-connection rule set excludes "a" and the global one includes
\* "a*": the tool "a" is gone although the global include matches it, the
\* tool "ax" is listed
C9_Witness ==
  /\ fnOut # <<>>
  /\ fnIn.tools = ToolList(<<Tool(<<"a">>), Tool(<<"a", "x">>)>>)
  /\ fnIn.perServer = FilterConfig(<<>>, << <<"a">> >>)
  /\ fnIn.global = FilterConfig(<< <<"a", "*">> >>, <<>>)
  /\ fnOut[1].tools = <<Tool(<<"a", "x">>)>>

\* ------------------------------------------------------------------------
\* C10: a pattern that does not end with a dot is matched as a glob
\* ------------------------------------------------------------------------

\* the glob reading of a pattern: `*` any run of characters, `?` exactly one
\* character, any other character itself, letters without regard to case;
\* pattern from i on against the name from j on
RECURSIVE GlobMatchFrom(_, _, _, _)
GlobMatchFrom(pattern, i, toolName, j) ==
  IF i > Len(pattern) THEN j > Len(toolName)
  ELSE IF pattern[i] = "*"
       THEN \/ GlobMatchFrom(pattern, i + 1, toolName, j)
            \/ /\ j <= Len(toolName)
               /\ GlobMatchFrom(pattern, i, toolName, j + 1)
       ELSE /\ j <= Len(toolName)
            /\ \/ pattern[i] = "?"
               \/ Fold(pattern[i]) = Fold(toolName[j])
            /\ GlobMatchFrom(pattern, i + 1, toolName, j + 1)

GlobMatch(toolName, pattern) == GlobMatchFrom(pattern, 1, toolName, 1)

\* C10: for every tool name and every pattern that does not end with a dot,
\* matchesPattern is true exactly when the whole name matches the whole
\* pattern read as a glob, case-insensitively.
C10_MatchesIsGlob ==
  (fnOut # <<>> /\ ~endsWith(fnIn.pattern, ".")) =>
     fnOut[1] = GlobMatch(fnIn.toolName, fnIn.pattern)

\* ------------------------------------------------------------------------
\* Claims about the registry
\* ------------------------------------------------------------------------

\* the names getConnectedServers() lists
ListedNames == {getConnectedServers[i] : i \in 1..Len(getConnectedServers)}

\* the latest step was a call of connectToServer(n, ...)
IsConnectCall(n) ==
  /\ last.name = n
  /\ \/ last.kind = "connectStart"
     \/ last.kind = "connect" /\ last.error = "AlreadyConnected"

\* C1: a connect(N) called while N maps to a handle fails with
\* AlreadyConnected; it starts no session and stores none, and N still maps
\* to the handle it had, which is resolvable and listed.
C1_DuplicateConnectFails ==
  [][\A n \in Names :
       (Has(clients, n) /\ IsConnectCall(n)') =>
          /\ last'.error = "AlreadyConnected"
          /\ tasks' = tasks
          /\ clients' = clients
          /\ sessions' = sessions
          /\ Get(clients', n) = Get(clients, n)
          /\ Get(clients', n) # 0
          /\ n \in ListedNames']_vars

\* a second connect of a connected name was refused and the name is still
\* registered with a live session
C1_Witness ==
  /\ last.kind = "connect"
  /\ last.error = "AlreadyConnected"
  /\ Has(clients, last.name)
  /\ Get(clients, last.name) \in sessions

\* C2: disconnectAll attempts to close every name registered when it was
\* called, also when closing one of them fails.
C2_DisconnectAllAttemptsAll ==
  last.kind = "disconnectAll" =>
     \A i \in 1..Len(last.servers) :
        \E j \in 1..Len(last.log) : last.log[j] = last.servers[i]

\* C3: after disconnect(N) succeeded the registry holds neither a handle nor
\* a per-connection filter rule for N.
C3_DisconnectRemovesFilter ==
  (last.kind = "disconnect" /\ last.error = "none") =>
     /\ ~Has(clients, last.name)
     /\ ~serverFilters[last.name].present

\* the latest step was the failure of the session of a connect of n
IsConnectFailure(n) ==
  /\ last.name = n
  /\ last.error = "TransportFailure"
  /\ last.kind \in {"connect", "loadConnectFailed"}

\* C4: when establishing the session of connect(N) fails, no handle is
\* stored: the registry is as it was, and a name absent before is absent
\* after (not listed, not resolvable).
C4_FailedConnectLeavesNoEntry ==
  [][\A n \in Names :
       IsConnectFailure(n)' =>
          /\ clients' = clients
          /\ sessions' = sessions
          /\ ~Has(clients, n) =>
               /\ ~Has(clients', n)
               /\ Get(clients', n) = 0
               /\ n \notin ListedNames']_vars

\* a connect failed and its name is absent
C4_Witness ==
  /\ IsConnectFailure(last.name)
  /\ last.kind = "connect"
  /\ ~Has(clients, last.name)
  /\ last.name \notin ListedNames

\* ------------------------------------------------------------------------
\* Claims about the batch operations
\* ------------------------------------------------------------------------

IsPrefix(s1, s2) == Len(s1) <= Len(s2) /\ SubSeq(s2, 1, Len(s1)) = s1

\* the record a batch operation `op` of task t has built before and after a
\* step: its task's log while it runs, the event's log when it ends
LogBefore(t, op) == IF tasks[t].op = op THEN tasks[t].log ELSE <<>>

LogAfter(t, op) ==
  IF tasks[t].op = op THEN tasks[t].log
  ELSE IF last.kind = op THEN last.log ELSE <<>>

\* a load that returned went past every entry of the document, in order
LoadWentPastAll ==
  last.kind = "load" =>
     /\ last.error \in {"none", "ConfigurationLoadFailure"}
     /\ last.error = "none" =>
          /\ Len(last.log) = Len(last.servers)
          /\ \A i \in 1..Len(last.log) :
               /\ last.log[i].name = last.servers[i]
               /\ last.log[i].outcome \in {"skipped", "connected", "failed"}

\* the load passes an entry without connecting only when its name is
\* registered, and a session it established is registered at once
LoadStepsRight ==
  /\ \A t \in BatchTasks :
       \A i \in (Len(LogBefore(t, "load")) + 1)..Len(LogAfter(t, "load")') :
          LogAfter(t, "load")'[i].outcome = "skipped" =>
             Has(clients, LogAfter(t, "load")'[i].name)
  /\ last'.kind = "loadConnected" =>
       /\ Has(clients', last'.name)
       /\ Get(clients', last'.name) = last'.handle
       /\ last'.handle \in sessions'
  /\ \A t \in BatchTasks :
       tasks[t].op = "load" => IsPrefix(LogBefore(t, "load"), LogAfter(t, "load")')

\* C5: a failing connection never aborts the load: when it returns, every
\* configured name was either registered already or had its connection
\* attempted, and every session that could be established was registered,
\* wherever the failing names stand in the document.
C5_LoadNeverAborts == []LoadWentPastAll /\ [][LoadStepsRight]_vars

\* the first entry failed to connect, the second one was connected after it
C5_Witness ==
  /\ last.kind = "load"
  /\ last.error = "none"
  /\ last.log = <<LogEntry("a", "failed"), LogEntry("b", "connected")>>
  /\ Has(clients, "b")
  /\ ~Has(clients, "a")

\* the answer of list-all-tools has one entry per name of its snapshot, in
\* order, and is never an error as a whole
ListAllComplete ==
  last.kind = "listAll" =>
     /\ last.error = "none"
     /\ Len(last.log) = Len(last.servers)
     /\ \A i \in 1..Len(last.log) :
          /\ last.log[i].name = last.servers[i]
          /\ last.log[i].ok => last.log[i].error = "none"
          /\ ~last.log[i].ok =>
               last.log[i].error \in {"TransportFailure", "NotConnected"}

\* the names of a list-all-tools are those connected when it is called; an
\* answered query adds the filtered catalog under its name, a failed one an
\* error under its name, and no step changes an entry made before
ListAllStepsRight ==
  \A t \in BatchTasks :
     /\ (tasks[t].op # "listAll" /\ tasks'[t].op = "listAll") =>
          tasks'[t].servers = getConnectedServers
     /\ (tasks[t].op # "listAll" /\ last'.kind = "listAll") =>
          last'.servers = getConnectedServers
     /\ tasks[t].op = "listAll" =>
          /\ IsPrefix(LogBefore(t, "listAll"), LogAfter(t, "listAll")')
          /\ last'.kind = "listed" =>
               LogAfter(t, "listAll")' =
                 Append(LogBefore(t, "listAll"),
                        ToolsEntry(tasks[t].name,
                          ToolList(SurvivorsOf(Catalog,
                                               serverFilters[tasks[t].name],
                                               globalFilters))))
          /\ last'.kind = "listFailed" =>
               LogAfter(t, "listAll")' =
                 Append(LogBefore(t, "listAll"),
                        ErrorEntry(tasks[t].name, "TransportFailure"))

\* C6: list-all-tools returns an entry for every name connected when it
\* started: the filtered tool list when the query succeeds, an error value
\* under that name when it fails; a failure for one name leaves the other
\* entries alone and never makes the whole result an error.
C6_ListAllIsolatesFailures == []ListAllComplete /\ [][ListAllStepsRight]_vars

\* one query failed, the other one was answered: both entries are there
C6_Witness ==
  /\ last.kind = "listAll"
  /\ Len(last.log) = 2
  /\ ~last.log[1].ok
  /\ last.log[1].error = "TransportFailure"
  /\ last.log[2].ok
  /\ last.log[2].value.isList

\* C7 as stated: after a load in which a server failed to connect,
\* list-all-tools holds an error entry under that server's name.
C7_FailedServerHasErrorEntry ==
  (last.kind = "listAll" /\ last.servers # <<>>) =>
     \A n \in connectFailed :
        \E i \in 1..Len(last.log) : last.log[i].name = n /\ ~last.log[i].ok

\* C7 as amended: after a load in which a server failed to connect,
\* list-all-tools holds an entry for each server connected when it was
\* called and none under the name of the server that failed to connect.
C7_FailedServerHasNoEntry ==
  last.kind = "listAll" =>
     /\ Len(last.log) = Len(last.servers)
     /\ \A i \in 1..Len(last.log) :
          /\ last.log[i].name = last.servers[i]
          /\ last.log[i].name \notin connectFailed

\* the load failed to connect "a" and connected "b": the answer holds the
\* tools of "b" and nothing else
C7_Witness ==
  /\ last.kind = "listAll"
  /\ connectFailed = {"a"}
  /\ Len(last.log) = 1
  /\ last.log[1].name = "b"
  /\ last.log[1].ok

\* the tools listTools(n) shows of the catalog
VisibleTools(n) ==
  {applyFilters(ToolList(Catalog), n).tools[i] :
     i \in 1..Len(applyFilters(ToolList(Catalog), n).tools)}

\* whatever the rule sets are, any request to a connected name can be sent
CallNeverGated ==
  \A t \in Tasks, n \in Names, c \in CallRequests :
     (Idle(t) /\ Has(clients, n)) => ENABLED CallStart(t, n, c.tool, c.args)

\* the request sent is the caller's tool name and arguments, to the handle
\* registered under the name; no step of callTool changes a rule set
CallForwardsVerbatim ==
  /\ last'.kind = "callStart" =>
       /\ \E t \in Tasks :
            /\ Idle(t)
            /\ tasks'[t].op = "callTool"
            /\ tasks'[t].name = last'.name
            /\ last'.tool = tasks'[t].tool
            /\ last'.args = tasks'[t].args
       /\ last'.handle = Get(clients, last'.name)
       /\ last'.handle # 0
  /\ last'.kind \in {"callStart", "callTool"} =>
       /\ serverFilters' = serverFilters
       /\ globalFilters' = globalFilters

\* C8: callTool on a connected name forwards exactly the tool name and the
\* arguments to that name's session whatever the rule sets are, also for a
\* tool the filters hide from listTools, and changes no rule set.
C8_CallBypassesFilters == []CallNeverGated /\ [][CallForwardsVerbatim]_vars

\* a call of a tool that listTools hides was forwarded and answered
C8_Witness ==
  /\ last.kind = "callTool"
  /\ last.error = "none"
  /\ Has(clients, last.name)
  /\ Tool(last.tool) \in {Catalog[i] : i \in 1..Len(Catalog)}
  /\ Tool(last.tool) \notin VisibleTools(last.name)

\* ------------------------------------------------------------------------
\* C11: a load skips the registered names; loading a document again
\* ------------------------------------------------------------------------

\* the handles registered in a Map
HandlesOf(m) == {m[i].handle : i \in 1..Len(m)}

NamesOf(m) == {m[i].name : i \in 1..Len(m)}

\* the step is one of the loop of a load: entries are passed, and either the
\* connection of the next one is started or the load returns
IsLoadLoopStep ==
  \/ last'.kind = "loadConnect"
  \/ last'.kind = "load" /\ last'.error = "none"

\* the loop passes exactly the registered names without a session, an error
\* or a change of the registry, and starts a connection only for a name that
\* is not registered
LoadSkipsRegistered ==
  IsLoadLoopStep =>
     /\ clients' = clients
     /\ sessions' = sessions
     /\ nextHandle' = nextHandle
     /\ last'.error = "none"
     /\ \A i \in (Len(LogBefore(Caller, "load")) + 1)
                    ..Len(LogAfter(Caller, "load")') :
          /\ LogAfter(Caller, "load")'[i].outcome = "skipped"
          /\ Has(clients, LogAfter(Caller, "load")'[i].name)
     /\ last'.kind = "loadConnect" => ~Has(clients, last'.name)

\* the load that has just returned was a second load of the same document
IsReload == last.kind = "load" /\ last.error = "none" /\ last.prior # <<>>

\* a second load passes every name the first one connected or passed, keeps
\* the handle of every name registered when it started, and adds only the
\* names it connected itself
ReloadKeepsRegistered ==
  IsReload =>
     /\ Len(last.log) = Len(last.prior[1].log)
     /\ \A i \in 1..Len(last.log) :
          /\ last.prior[1].log[i].outcome \in {"connected", "skipped"} =>
               last.log[i].outcome = "skipped"
          /\ last.log[i].outcome = "connected" =>
               /\ last.prior[1].log[i].outcome = "failed"
               /\ ~Has(last.prior[1].clients, last.log[i].name)
     /\ \A n \in NamesOf(last.prior[1].clients) :
          Get(clients, n) = Get(last.prior[1].clients, n)
     /\ NamesOf(clients) =
          NamesOf(last.prior[1].clients) \cup
            {last.log[i].name : i \in {j \in 1..Len(last.log) :
                                         last.log[j].outcome = "connected"}}

\* C11 as stated: a load skips every registered name (no session, no
\* error, handle unchanged), and a second load of the same document right
\* after the first leaves the registered names and their handles unchanged.
C11_ReloadLeavesRegistryUnchanged ==
  IsReload => clients = last.prior[1].clients

\* C11 as amended: a load skips every registered name (no session, no
\* error, handle unchanged); a second load of the same document right after
\* the first opens no session for a name the first one connected and keeps
\* the handle of every registered name, and it attempts again the names the
\* first load failed to connect, which it may add to the registry.
C11_ReloadSkipsRegistered ==
  []ReloadKeepsRegistered /\ [][LoadSkipsRegistered]_vars

\* the first load failed to connect "a" and connected "b"; the second load
\* of the document skipped "b" and connected "a"
C11_Witness ==
  /\ IsReload
  /\ last.prior[1].log = <<LogEntry("a", "failed"), LogEntry("b", "connected")>>
  /\ last.log = <<LogEntry("a", "connected"), LogEntry("b", "skipped")>>
  /\ Get(clients, "b") = Get(last.prior[1].clients, "b")
  /\ Has(clients, "a")

\* ------------------------------------------------------------------------
\* C12: the termination signal drains every connection before the exit
\* ------------------------------------------------------------------------

\* the process has ended in the SIGINT handler: by process.exit(0), or
\* terminated for the handler's unhandled rejection
EndedInSigint ==
  \/ last.kind = "exit"
  \/ last.kind = "crash" /\ last.error # "ConfigurationLoadFailure"

\* C12: when the process ends after the termination signal, a close has
\* been attempted on every connection that was registered when the signal
\* arrived, also when closing one of them failed.
C12_ExitAfterClosingAll ==
  EndedInSigint =>
     \A i \in 1..Len(last.servers) :
        \E j \in 1..Len(last.log) : last.log[j] = last.servers[i]

\* ------------------------------------------------------------------------
\* C13: listTools, callTool and disconnect on a name with no handle
\* ------------------------------------------------------------------------

\* the step is a listTools, callTool or disconnect that failed with
\* NotConnected
IsNotConnectedFailure ==
  /\ last'.error = "NotConnected"
  /\ last'.kind \in {"listTools", "callTool", "disconnect"}

\* the step sends a request (catalog query, tool call, close) to a session
IsRequest == last'.kind \in {"listStart", "callStart", "closeStart"}

\* a NotConnected failure is for a name with no handle, leaves no call in
\* progress and changes nothing of the registry; a request goes only to the
\* handle registered under the name it is for
NotConnectedStepsRight ==
  /\ IsNotConnectedFailure =>
       /\ ~Has(clients, last'.name)
       /\ last'.handle = 0
       /\ UNCHANGED <<clients, sessions, nextHandle, serverFilters,
                      globalFilters, tasks>>
  /\ IsRequest =>
       /\ Has(clients, last'.name)
       /\ last'.handle = Get(clients, last'.name)
       /\ last'.handle # 0

\* on a name with no handle each of the three calls can only fail
OnlyFailsWhenAbsent ==
  \A t \in Tasks, n \in Names :
     (Idle(t) /\ ~Has(clients, n)) =>
        /\ ENABLED ListNotConnected(t, n)
        /\ ENABLED DisconnectNotConnected(t, n)
        /\ \A c \in CallRequests : ENABLED CallNotConnected(t, n, c.tool, c.args)
        /\ ~ENABLED ListStart(t, n)
        /\ ~ENABLED DisconnectStart(t, n)
        /\ \A c \in CallRequests : ~ENABLED CallStart(t, n, c.tool, c.args)

\* C13: listTools(N), callTool(N, ...) and disconnect(N) on a name N with no
\* handle each fail with NotConnected, send no request to any session, and
\* leave the handles, the per-connection filters and the global filter as
\* they were.
C13_AbsentNameFailsNotConnected ==
  []OnlyFailsWhenAbsent /\ [][NotConnectedStepsRight]_vars

\* a callTool on an absent name failed while another name has a live
\* session and the absent name still has its rule set
C13_Witness ==
  /\ last.kind = "callTool"
  /\ last.error = "NotConnected"
  /\ ~Has(clients, last.name)
  /\ sessions # {}
  /\ serverFilters[last.name].present

\* ------------------------------------------------------------------------
\* C14: filtering is idempotent
\* ------------------------------------------------------------------------

\* a rule set with at least one pattern
NonEmptyRuleSet(ruleSet) ==
  ruleSet.present /\ (Len(ruleSet.include) > 0 \/ Len(ruleSet.exclude) > 0)

\* C14: for every tool list and every rule set, applying the rule set to the
\* list it has already been applied to returns that list unchanged (also
\* when a per-connection and a global rule set are applied together).
C14_FilterIdempotent ==
  Len(fnOut) = 2 =>
     /\ fnOut[2] = fnOut[1]
     /\ (fnIn.tools.isList /\ NonEmptyRuleSet(fnIn.perServer)) =>
          filterToolsByConfig(
            filterToolsByConfig(fnIn.tools.tools, fnIn.perServer),
            fnIn.perServer)
          = filterToolsByConfig(fnIn.tools.tools, fnIn.perServer)

\* one non-empty rule set alone removed a tool and kept another; applied
\* again it returned the same list
C14_Witness ==
  /\ Len(fnOut) = 2
  /\ NonEmptyRuleSet(fnIn.perServer)
  /\ ~fnIn.global.present
  /\ fnIn.tools.isList
  /\ fnOut[1].tools # fnIn.tools.tools
  /\ fnOut[1].tools # <<>>
  /\ fnOut[2].tools = fnOut[1].tools

\* ------------------------------------------------------------------------
\* C15: tools with no discernible name
\* ------------------------------------------------------------------------

\* the tools of a list that have no name (missing or empty), in order
Nameless(tools) == SelectSeq(tools, NoToolName)

HasInclude(ruleSet) == ruleSet.present /\ Len(ruleSet.include) > 0

\* what a stage does to the nameless tools of the list `tools` it is run on:
\* its include step, when it has include patterns, lets none through; its
\* exclude step keeps each one of the list it is given
NamelessThroughStage(tools, ruleSet) ==
  ruleSet.present =>
     /\ Len(ruleSet.include) > 0 =>
          Nameless(IncludeStep(tools, ruleSet)) = <<>>
     /\ Nameless(ExcludeStep(tools, ruleSet)) = Nameless(tools)
     /\ Nameless(ExcludeStep(IncludeStep(tools, ruleSet), ruleSet))
          = Nameless(IncludeStep(tools, ruleSet))

\* C15: a tool with no discernible name is dropped by a stage that has a
\* non-empty include list and is kept by the exclude step of a stage
\* whatever its exclude patterns are; when no stage has an include list,
\* every nameless tool of the catalog is in the output.
C15_NamelessTools ==
  (fnOut # <<>> /\ fnIn.tools.isList) =>
     /\ NamelessThroughStage(fnIn.tools.tools, fnIn.perServer)
     /\ NamelessThroughStage(
          applyFiltersWith(fnIn.tools, fnIn.perServer, NoFilter).tools,
          fnIn.global)
     /\ (HasInclude(fnIn.perServer) \/ HasInclude(fnIn.global)) =>
          Nameless(fnOut[1].tools) = <<>>
     /\ (~HasInclude(fnIn.perServer) /\ ~HasInclude(fnIn.global)) =>
          Nameless(fnOut[1].tools) = Nameless(fnIn.tools.tools)

\* only exclude lists are active: the per-connection one removed the tool
\* "a", the global one matched nothing, and the nameless tool is listed
C15_Witness ==
  /\ fnOut # <<>>
  /\ fnIn.tools = ToolList(<<Tool(<<"a">>), NamelessTool>>)
  /\ fnIn.perServer = FilterConfig(<<>>, << <<"a">> >>)
  /\ fnIn.global = FilterConfig(<<>>, << <<"a", "*">> >>)
  /\ fnOut[1].tools = <<NamelessTool>>

\* ------------------------------------------------------------------------
\* C16: one session per name
\* ------------------------------------------------------------------------

\* the latest step stored the handle of a newly established session
IsConnectSuccess ==
  /\ last.kind \in {"connect", "loadConnected"}
  /\ last.error = "none"

\* C16: under every interleaving of connect and load calls for a name, a
\* handle stored under the name is never overwritten by another connect and
\* no established session is left live without being the handle registered
\* under its name: when a connect has stored its handle, every live session
\* is a registered handle.
C16_OneSessionPerName ==
  IsConnectSuccess => sessions \subseteq HandlesOf(clients)

\* ------------------------------------------------------------------------
\* C17: lookups while a disconnect is in progress
\* ------------------------------------------------------------------------

\* the calls that have started the close of the session `handle` and are
\* waiting for it
ClosingTasks(handle) ==
  {t \in Tasks : tasks[t].pc = "closing" /\ tasks[t].handle = handle}

\* C17: no lookup that starts after the close of a name's session has been
\* initiated obtains that session's handle: a listTools or callTool never
\* sends its request to a session that is being closed, and a disconnect
\* never starts a second close of it.
C17_NoLookupDuringClose ==
  /\ last.kind \in {"listStart", "callStart"} =>
       ClosingTasks(last.handle) = {}
  /\ last.kind = "closeStart" =>
       Cardinality(ClosingTasks(last.handle)) <= 1

\* ------------------------------------------------------------------------
\* C18: the per-connection rule set listTools applies
\* ------------------------------------------------------------------------

\* the latest step is the answer of a listTools on the handle that is
\* registered under its name
IsListAnswer ==
  /\ last.kind \in {"listTools", "listed"}
  /\ last.error = "none"
  /\ Has(clients, last.name)
  /\ last.handle = Get(clients, last.name)

\* C18: the per-connection rule set listTools(N) applies is the one
\* supplied with the connect that established N's current handle; when that
\* connect supplied none, no per-connection filtering is applied.
C18_ListAppliesSuppliedRuleSet ==
  IsListAnswer =>
     last.result =
       applyFiltersWith(ToolList(Catalog), supplied[last.name], globalFilters)

\* ------------------------------------------------------------------------
\* C19: a child that never answers
\* ------------------------------------------------------------------------

\* list-all-tools of task t has the name n still to query
ListAllPending(t, n) ==
  /\ tasks[t].op = "listAll"
  /\ \E i \in 1..Len(tasks[t].queue) : tasks[t].queue[i] = n

\* every name of the snapshot other than the hung one has its catalog query
\* issued
OthersAreQueried ==
  \A t \in BatchTasks, n \in Names \ {Hung} :
     ListAllPending(t, n) ~> ~ListAllPending(t, n)

\* a callTool to a connection other than the hung one completes
OtherCallsComplete ==
  \A t \in Tasks :
     (At(t, "callTool", "calling") /\ tasks[t].name # Hung) ~> Idle(t)

\* C19: when one connected child never answers its catalog query,
\* list-all-tools still issues the catalog queries for all other connected
\* names, and a callTool addressed to another connection still completes.
C19_HungChildBlocksOnlyItsCall == OthersAreQueried /\ OtherCallsComplete

\* ------------------------------------------------------------------------
\* C20: autoLoad with a document that cannot be loaded
\* ------------------------------------------------------------------------

\* the process has been terminated
ProcessEnded == \E t \in Tasks : tasks[t] = ExitedTask

\* C20: when loading the configuration fails (the document is missing or
\* unparseable), the failure never escapes as an unhandled error and never
\* terminates the process: the hub goes on serving.
C20_AutoLoadFailureIsCaught ==
  last.error = "ConfigurationLoadFailure" =>
     /\ last.kind \notin RejectionOutcomes
     /\ ~ProcessEnded

\* ------------------------------------------------------------------------
\* C21: the rule set handed in at construction and the document's
\* globalFilters
\* ------------------------------------------------------------------------

PatternsOf(list) == {list[i] : i \in 1..Len(list)}

\* the step drops no pattern of the global rule set
KeepsGlobalPatterns ==
  globalFilters.present =>
     /\ globalFilters'.present
     /\ PatternsOf(globalFilters.include) \subseteq
          PatternsOf(globalFilters'.include)
     /\ PatternsOf(globalFilters.exclude) \subseteq
          PatternsOf(globalFilters'.exclude)

\* C21: the patterns handed to the manager at construction stay in the
\* global rule set: the first call after construction, be it the load of a
\* document with globalFilters of its own or of one without, drops none of
\* them.
C21_LoadKeepsConstructedGlobalFilter ==
  [][last.kind = "init" => KeepsGlobalPatterns]_vars

\* ------------------------------------------------------------------------
\* C22: requests to one connection
\* ------------------------------------------------------------------------

\* the calls that have sent a catalog query or a tool call to the session
\* `handle` and are waiting for its answer
InFlight(handle) ==
  {t \in Tasks : /\ tasks[t].pc \in {"listing", "calling"}
                 /\ tasks[t].handle = handle}

\* C22: under every interleaving of listTools and callTool requests, at most
\* one request is in flight on a connection's session at any time.
C22_OneRequestPerConnection ==
  \A handle \in sessions : Cardinality(InFlight(handle)) <= 1

\* ------------------------------------------------------------------------
\* C23: a disconnect whose close fails
\* ------------------------------------------------------------------------

\* the latest step is a disconnect that failed because the close of the
\* session failed
IsCloseFailure ==
  /\ last.kind = "disconnect"
  /\ last.error = "TransportFailure"

\* the failed disconnect changes nothing of the registry: a name that
\* mapped to the handle whose close failed still maps to it and is listed
CloseFailureStepsRight ==
  IsCloseFailure' =>
     /\ UNCHANGED <<clients, sessions, nextHandle, serverFilters,
                    globalFilters>>
     /\ Get(clients, last'.name) = last'.handle =>
          /\ Has(clients', last'.name)
          /\ Get(clients', last'.name) = last'.handle
          /\ last'.name \in ListedNames'
          /\ last'.handle \in sessions'

\* after it a connect of the name can only fail with AlreadyConnected and a
\* disconnect of the name can be started again
CloseFailureLeavesNameRegistered ==
  (IsCloseFailure /\ Get(clients, last.name) = last.handle) =>
     \A t \in Tasks :
        Idle(t) =>
           /\ ENABLED ConnectAlready(t, last.name)
           /\ ~ENABLED ConnectStart(t, last.name)
           /\ ENABLED DisconnectStart(t, last.name)

\* C23: when closing the session fails during disconnect(N) the call fails
\* and the registry is unchanged: N still maps to the same handle and is
\* listed, a following connect(N) fails with AlreadyConnected, and
\* disconnect(N) can be attempted again.
C23_FailedCloseKeepsEntry ==
  []CloseFailureLeavesNameRegistered /\ [][CloseFailureStepsRight]_vars

\* a disconnect failed at the close and its name still maps to the handle
\* of the live session
C23_Witness ==
  /\ IsCloseFailure
  /\ Has(clients, last.name)
  /\ Get(clients, last.name) = last.handle
  /\ last.handle \in sessions
  /\ last.name \in ListedNames

====
